---- MODULE Spec2Model ----
(***************************************************************************)
(* Model of my_basic_cli_tools: the quote-aware tokenizer                  *)
(* (src/src/parse_command/input_utils.rs), the command parser/validator    *)
(* and the execution dispatch (src/src/parse_command.rs), and the          *)
(* read-evaluate loop (src/src/main.rs).                                   *)
(*                                                                         *)
(* A string is a sequence of one-character strings.  A printed line is a   *)
(* sequence of strings: the literal parts of the format string are single  *)
(* elements, the interpolated values follow character by character.        *)
(*                                                                         *)
(* Two specifications:                                                     *)
(*   SpecParse  Command::try_from called directly on an arbitrary string   *)
(*              (no trimming), one tokenizer iteration per step;           *)
(*   Spec       the loop of main: prompt, read_line, trim, try_from,       *)
(*              execute, back to the prompt.                               *)
(* println! is taken to succeed; the error paths the source spells out     *)
(* (the three `?` and the unwrap) are modelled.  out holds the text        *)
(* written since the last prompt; the variables of one iteration are       *)
(* cleared when the next prompt is printed.                                *)
(***************************************************************************)
EXTENDS Integers, Sequences, FiniteSets, TLC

VARIABLES
    pc,             \* control position (see the actions)
    line,           \* main.rs: `input` after read_line
    input,          \* argument of Command::try_from
    pos,            \* number of characters of input the tokenizer has consumed
    output,         \* input_utils.rs: `output`
    current,        \* input_utils.rs: `current`
    inside_quotes,  \* input_utils.rs: `inside_quotes`
    result,         \* value returned by Command::try_from
    dirs,           \* execute (Ls): `dirs`
    done_dirs,      \* execute (Ls): iterations of `for dir in &dirs[..]` completed
    fs,             \* the file system as this execution of ls sees it, by path
    exec_result,    \* value returned by Command::execute: "none", "ok", "err"
    out,            \* what was written to stdout since the last prompt (prompt included)
    exit_status     \* process exit status, -1 while the process runs

vars == <<pc, line, input, pos, output, current, inside_quotes, result,
          dirs, done_dirs, fs, exec_result, out, exit_status>>

tokenizer_vars == <<pos, output, current, inside_quotes>>
ls_vars == <<dirs, done_dirs, fs>>

-----------------------------------------------------------------------------
(* Characters and words *)

SP == " "
QUOTE == "\""
DASH == "-"
NL == "\n"
TAB == "\t"
CR == "\r"

ECHO == <<"e", "c", "h", "o">>
EXIT == <<"e", "x", "i", "t">>
HELP == <<"h", "e", "l", "p">>
LS == <<"l", "s">>

Min(S) == CHOOSE x \in S : \A y \in S : x <= y

Last(s) == s[Len(s)]

RECURSIVE Concat(_)
Concat(ss) == IF ss = <<>> THEN <<>> ELSE Head(ss) \o Concat(Tail(ss))

-----------------------------------------------------------------------------
(* Bounds of the checked inputs *)

\* SpecParse: characters after the command name
MaxTail == 5
\* Spec: words after the command name on a line
MaxArgs == 3

-----------------------------------------------------------------------------
(* Tokenizer: input_utils.rs *)

\* the delimiter split_input_outside_quotes_on_whitespace passes
delimiter == SP

\* locals of split_input_outside_quotes before the loop
split_init == [output |-> <<>>, current |-> <<>>, inside_quotes |-> FALSE]

\* One iteration of `for c in input.chars()` with the current-empty test left out.
split_char_no_empty_check(st, c) ==
    IF c = QUOTE
    THEN [st EXCEPT !.inside_quotes = ~st.inside_quotes]
    ELSE IF c = delimiter /\ ~st.inside_quotes
         THEN [st EXCEPT !.output = Append(st.output, st.current), !.current = <<>>]
         ELSE [st EXCEPT !.current = Append(st.current, c)]

\* One iteration of `for c in input.chars()` that keeps the quote character.
split_char_keep_quote(st, c) ==
    IF c = QUOTE
    THEN [st EXCEPT !.inside_quotes = ~st.inside_quotes,
                    !.current = Append(st.current, c)]
    ELSE IF c = delimiter /\ ~st.inside_quotes
         THEN IF st.current = <<>>
              THEN st
              ELSE [st EXCEPT !.output = Append(st.output, st.current),
                              !.current = <<>>]
         ELSE [st EXCEPT !.current = Append(st.current, c)]

\* One iteration of `for c in input.chars()`.
split_char(st, c) ==
    IF c = QUOTE
    THEN [st EXCEPT !.inside_quotes = ~st.inside_quotes]
    ELSE IF c = delimiter /\ ~st.inside_quotes
         THEN IF st.current = <<>>
              THEN st
              ELSE [st EXCEPT !.output = Append(st.output, st.current),
                              !.current = <<>>]
         ELSE [st EXCEPT !.current = Append(st.current, c)]

\* After the loop with the push made only for a non-empty buffer.
split_finish_skip_empty(st) ==
    IF st.current = <<>> THEN st.output ELSE Append(st.output, st.current)

\* After the loop: output.push(current); output
split_finish(st) == Append(st.output, st.current)

RECURSIVE split_loop(_, _)
split_loop(st, s) == IF s = <<>> THEN st ELSE split_loop(split_char(st, Head(s)), Tail(s))

\* The whole function, as a value.
split_input_outside_quotes(s) == split_finish(split_loop(split_init, s))

-----------------------------------------------------------------------------
(* Command kinds and their rules: parse_command.rs *)

CommandTypes == {"Echo", "Exit", "Help", "Ls"}

Ok(v) == [ok |-> TRUE, value |-> v]
Err(e) == [ok |-> FALSE, error |-> e]

UnknownCommand(name) == [kind |-> "UnknownCommand", text |-> name]
UnsupportedFlag(flag) == [kind |-> "UnsupportedFlag", text |-> flag]
WrongArgumentsCount(expected, actual) ==
    [kind |-> "WrongArgumentsCount", expected |-> expected, actual |-> actual]

Exact(n) == [tag |-> "Exact", min |-> n, max |-> n]
AtLeast(n) == [tag |-> "AtLeast", min |-> n, max |-> n]
AtMost(n) == [tag |-> "AtMost", min |-> n, max |-> n]
Range(a, b) == [tag |-> "Range", min |-> a, max |-> b]

None == [some |-> FALSE]
Some(v) == [some |-> TRUE, value |-> v]

\* CommandType::try_from
CommandType_try_from(name) ==
    IF name = ECHO THEN Ok("Echo")
    ELSE IF name = EXIT THEN Ok("Exit")
    ELSE IF name = HELP THEN Ok("Help")
    ELSE IF name = LS THEN Ok("Ls")
    ELSE Err(UnknownCommand(name))

\* A rule table in which echo accepts the flag -a.
get_supported_flags_echo_a(command_type) ==
    IF command_type = "Echo" THEN {<<DASH, "a">>} ELSE {}

get_supported_flags(command_type) ==
    CASE command_type = "Echo" -> {}
      [] command_type = "Exit" -> {}
      [] command_type = "Help" -> {}
      [] command_type = "Ls" -> {}

is_supported_flag(command_type, flag) == flag \in get_supported_flags(command_type)

get_expected_argument_count(command_type) ==
    CASE command_type = "Echo" -> Some(AtLeast(1))
      [] command_type = "Exit" -> Some(Exact(0))
      [] command_type = "Help" -> Some(Exact(0))
      [] command_type = "Ls" -> None

\* is_valid with a strict comparison for AtLeast.
is_valid_strict(expected, count) ==
    CASE expected.tag = "Exact" -> count = expected.min
      [] expected.tag = "AtLeast" -> count > expected.min
      [] expected.tag = "AtMost" -> count <= expected.max
      [] expected.tag = "Range" -> count >= expected.min /\ count <= expected.max

is_valid(expected, count) ==
    CASE expected.tag = "Exact" -> count = expected.min
      [] expected.tag = "AtLeast" -> count >= expected.min
      [] expected.tag = "AtMost" -> count <= expected.max
      [] expected.tag = "Range" -> count >= expected.min /\ count <= expected.max

\* Command::new with the argument count checked before the flags.
Command_new_count_first(command_type, arguments, flags) ==
    LET expected == get_expected_argument_count(command_type)
        bad == {k \in 1..Len(flags) : ~is_supported_flag(command_type, flags[k])}
    IN  IF expected.some /\ ~is_valid(expected.value, Len(arguments))
        THEN Err(WrongArgumentsCount(expected.value, Len(arguments)))
        ELSE IF bad # {}
             THEN Err(UnsupportedFlag(flags[Min(bad)]))
             ELSE Ok([command_type |-> command_type, arguments |-> arguments,
                      flags |-> flags])

\* Command::new
Command_new(command_type, arguments, flags) ==
    LET bad == {k \in 1..Len(flags) : ~is_supported_flag(command_type, flags[k])}
        expected == get_expected_argument_count(command_type)
    IN  IF bad # {}
        THEN Err(UnsupportedFlag(flags[Min(bad)]))
        ELSE IF expected.some /\ ~is_valid(expected.value, Len(arguments))
             THEN Err(WrongArgumentsCount(expected.value, Len(arguments)))
             ELSE Ok([command_type |-> command_type, arguments |-> arguments,
                      flags |-> flags])

\* arg.starts_with('-')
starts_with_dash(arg) == Len(arg) > 0 /\ arg[1] = DASH

\* Command::try_from after the tokenizer has returned input_vec
\* (input_vec is non-empty: the caller models the index panic).
Command_try_from_tokens(input_vec) ==
    LET command_type == CommandType_try_from(input_vec[1])
        rest == Tail(input_vec)
        arguments == SelectSeq(rest, LAMBDA arg : ~starts_with_dash(arg))
        flags == SelectSeq(rest, LAMBDA arg : starts_with_dash(arg))
    IN  IF ~command_type.ok
        THEN command_type
        ELSE Command_new(command_type.value, arguments, flags)

NoResult == Err([kind |-> "NotParsed"])

-----------------------------------------------------------------------------
(* Tokenizer and parser as steps *)

\* input_utils.rs: one iteration of the for loop
SplitChar ==
    /\ pc = "split"
    /\ pos < Len(input)
    /\ LET st == split_char([output |-> output, current |-> current,
                             inside_quotes |-> inside_quotes], input[pos + 1])
       IN  /\ output' = st.output
           /\ current' = st.current
           /\ inside_quotes' = st.inside_quotes
    /\ pos' = pos + 1
    /\ UNCHANGED <<pc, line, input, result, ls_vars, exec_result, out, exit_status>>

\* input_utils.rs: the loop is over, the buffer is pushed, the vector returned
SplitFinish ==
    /\ pc = "split"
    /\ pos = Len(input)
    /\ output' = split_finish([output |-> output, current |-> current,
                               inside_quotes |-> inside_quotes])
    /\ pc' = "tokens"
    /\ UNCHANGED <<line, input, pos, current, inside_quotes, result, ls_vars,
                   exec_result, out, exit_status>>

\* parse_command.rs: try_from from input_vec[0] to the return
TryFrom ==
    /\ pc = "tokens"
    /\ IF Len(output) = 0
       THEN /\ pc' = "panicked"
            /\ exit_status' = 101
            /\ UNCHANGED result
       ELSE /\ result' = Command_try_from_tokens(output)
            /\ pc' = "parsed"
            /\ UNCHANGED exit_status
    /\ UNCHANGED <<line, input, tokenizer_vars, ls_vars, exec_result, out>>

-----------------------------------------------------------------------------
(* SpecParse: Command::try_from on an arbitrary string *)

ParseNames == {ECHO, EXIT, HELP, LS, <<"a">>, <<>>}
ParsePrefixes == {<<>>, <<SP>>, <<QUOTE>>}
TailChars == {SP, QUOTE, DASH, "a"}
ParseTails == UNION {[1..n -> TailChars] : n \in 0..MaxTail}
ParseInputs == {p \o n \o t : p \in ParsePrefixes, n \in ParseNames, t \in ParseTails}

InitParse ==
    /\ pc = "split"
    /\ line = <<>>
    /\ input \in ParseInputs
    /\ pos = 0
    /\ output = split_init.output
    /\ current = split_init.current
    /\ inside_quotes = split_init.inside_quotes
    /\ result = NoResult
    /\ dirs = <<>>
    /\ done_dirs = 0
    /\ fs = <<>>
    /\ exec_result = "none"
    /\ out = <<>>
    /\ exit_status = -1

NextParse == SplitChar \/ SplitFinish \/ TryFrom

SpecParse == InitParse /\ [][NextParse]_vars

-----------------------------------------------------------------------------
(* Display of errors: parse_command.rs *)

\* impl Display for ArgumentCount
ArgumentCount_fmt(expected) ==
    CASE expected.tag = "Exact" -> <<"exactly ", ToString(expected.min)>>
      [] expected.tag = "AtLeast" -> <<"at least ", ToString(expected.min)>>
      [] expected.tag = "AtMost" -> <<"up to ", ToString(expected.max)>>
      [] expected.tag = "Range" ->
            <<ToString(expected.min), "-", ToString(expected.max)>>

\* impl Display for CommandError
CommandError_fmt(error) ==
    CASE error.kind = "UnknownCommand" -> <<"Unknown command: ">> \o error.text
      [] error.kind = "UnsupportedFlag" -> <<"Unsupported flag: ">> \o error.text
      [] error.kind = "WrongArgumentsCount" ->
            <<"Wrong number of arguments: expected ">>
            \o ArgumentCount_fmt(error.expected)
            \o <<", got ", ToString(error.actual)>>

-----------------------------------------------------------------------------
(* Execution: Command::execute *)

\* arguments.join("\n")
RECURSIVE join(_, _)
join(ss, sep) ==
    IF ss = <<>> THEN <<>>
    ELSE IF Len(ss) = 1 THEN Head(ss)
    ELSE Head(ss) \o <<sep>> \o join(Tail(ss), sep)

\* names of directory entries, in lexicographic order
EntryNames == <<"x", "y">>

\* orders in which read_dir may yield the entries of a directory
EntryLists == {<<>>, <<"x">>, <<"x", "y">>, <<"y", "x">>}

\* what the file system holds at a path: nothing, a file, a directory that can be
\* read, a directory read_dir fails on, a directory whose iteration yields an Err
FsStates ==
    {[kind |-> k, entries |-> <<>>] : k \in {"Missing", "File", "Denied", "BadEntry"}}
    \cup {[kind |-> "Dir", entries |-> es] : es \in EntryLists}

\* the PathBuf of an entry of dir
entry_path(dir, name) == dir \o <<"/", name>>

\* entries.sort(): the entries of one directory, ordered by path
sort_entries(entries) ==
    SelectSeq(EntryNames, LAMBDA n : \E k \in 1..Len(entries) : entries[k] = n)

\* dirs.len() > 0 in place of dirs.len() > 1
show_frame_any(ds) == Len(ds) > 0

\* dirs.len() > 1
show_frame(ds) == Len(ds) > 1

IoErrorLine == <<"An error occured: ", "io error">>
MissingLine(dir) == <<"Directory ">> \o dir \o <<" does not exist">>
NotDirLine(dir) == dir \o <<" is not a directory">>
HeaderLine(dir) == dir \o <<":">>
BlankLine == <<>>
PromptText == <<"> ">>

\* The body of the for loop without the exists test: read_dir fails on a missing path.
ls_dir_no_exists_check(ds, dir, st) ==
    CASE st.kind = "Missing" -> [lines |-> <<>>, flow |-> "err"]
      [] st.kind = "File" -> [lines |-> <<NotDirLine(dir)>>, flow |-> "continue"]
      [] st.kind = "Denied" -> [lines |-> <<>>, flow |-> "err"]
      [] st.kind = "BadEntry" -> [lines |-> <<>>, flow |-> "panic"]
      [] st.kind = "Dir" ->
            LET entries == sort_entries(st.entries)
            IN  [lines |-> (IF show_frame(ds) THEN <<HeaderLine(dir)>> ELSE <<>>)
                           \o [k \in 1..Len(entries) |-> entry_path(dir, entries[k])]
                           \o (IF show_frame(ds) THEN <<BlankLine>> ELSE <<>>),
                 flow |-> "continue"]

\* The body of the for loop with a read_dir failure reported and skipped.
ls_dir_skip_denied(ds, dir, st) ==
    CASE st.kind = "Missing" -> [lines |-> <<MissingLine(dir)>>, flow |-> "continue"]
      [] st.kind = "File" -> [lines |-> <<NotDirLine(dir)>>, flow |-> "continue"]
      [] st.kind = "Denied" -> [lines |-> <<NotDirLine(dir)>>, flow |-> "continue"]
      [] st.kind = "BadEntry" -> [lines |-> <<>>, flow |-> "panic"]
      [] st.kind = "Dir" ->
            LET entries == sort_entries(st.entries)
            IN  [lines |-> (IF show_frame(ds) THEN <<HeaderLine(dir)>> ELSE <<>>)
                           \o [k \in 1..Len(entries) |-> entry_path(dir, entries[k])]
                           \o (IF show_frame(ds) THEN <<BlankLine>> ELSE <<>>),
                 flow |-> "continue"]

\* The body of `for dir in &dirs[..]` for one dir: the lines it prints and how
\* it leaves ("continue": next iteration; "err": read_dir(dir)? returns the
\* error from execute; "panic": entry.unwrap() panics).
ls_dir(ds, dir, st) ==
    CASE st.kind = "Missing" -> [lines |-> <<MissingLine(dir)>>, flow |-> "continue"]
      [] st.kind = "File" -> [lines |-> <<NotDirLine(dir)>>, flow |-> "continue"]
      [] st.kind = "Denied" -> [lines |-> <<>>, flow |-> "err"]
      [] st.kind = "BadEntry" -> [lines |-> <<>>, flow |-> "panic"]
      [] st.kind = "Dir" ->
            LET entries == sort_entries(st.entries)
            IN  [lines |-> (IF show_frame(ds) THEN <<HeaderLine(dir)>> ELSE <<>>)
                           \o [k \in 1..Len(entries) |-> entry_path(dir, entries[k])]
                           \o (IF show_frame(ds) THEN <<BlankLine>> ELSE <<>>),
                 flow |-> "continue"]

-----------------------------------------------------------------------------
(* The loop of main *)

IsWhitespace(c) == c \in {SP, NL, TAB, CR}

\* str::trim
RECURSIVE trim(_)
trim(s) ==
    IF s = <<>> THEN s
    ELSE IF IsWhitespace(Head(s)) THEN trim(Tail(s))
    ELSE IF IsWhitespace(Last(s)) THEN trim(SubSeq(s, 1, Len(s) - 1))
    ELSE s

\* main.rs: print!("> "); flush succeeds; input.clear()
Prompt ==
    /\ pc = "loop"
    /\ out' = <<PromptText>>
    /\ line' = <<>>
    /\ input' = <<>>
    /\ pos' = 0
    /\ output' = <<>>
    /\ current' = <<>>
    /\ inside_quotes' = FALSE
    /\ result' = NoResult
    /\ dirs' = <<>>
    /\ done_dirs' = 0
    /\ fs' = <<>>
    /\ exec_result' = "none"
    /\ pc' = "read"
    /\ UNCHANGED exit_status

\* main.rs: print!("> "); io::stdout().flush()? fails, nothing is written and
\* main returns the error (input.clear() is not reached)
PromptFlushErr ==
    /\ pc = "loop"
    /\ out' = <<>>
    /\ input' = <<>>
    /\ pos' = 0
    /\ output' = <<>>
    /\ current' = <<>>
    /\ inside_quotes' = FALSE
    /\ result' = NoResult
    /\ dirs' = <<>>
    /\ done_dirs' = 0
    /\ fs' = <<>>
    /\ exec_result' = "none"
    /\ pc' = "returned"
    /\ exit_status' = 1
    /\ UNCHANGED line

RECURSIVE JoinWords(_)
JoinWords(ws) == IF ws = <<>> THEN <<>> ELSE <<SP>> \o Head(ws) \o JoinWords(Tail(ws))

MainNames == {ECHO, EXIT, HELP, LS, <<"a">>, <<>>}
Words == {<<"a">>, <<"b">>, <<"c">>, <<DASH, "a">>}
LineEnds == {<<NL>>, <<SP, NL>>, <<>>}
WordSeqs == UNION {[1..n -> Words] : n \in 0..MaxArgs}
Lines == {n \o JoinWords(ws) \o e : n \in MainNames, ws \in WordSeqs, e \in LineEnds}

\* main.rs: read_line succeeds; Command::try_from(input.trim().to_owned()) is
\* entered and the tokenizer's locals are initialised
ReadLine ==
    /\ pc = "read"
    /\ \E l \in Lines :
          /\ line' = l
          /\ input' = trim(l)
    /\ pos' = 0
    /\ output' = split_init.output
    /\ current' = split_init.current
    /\ inside_quotes' = split_init.inside_quotes
    /\ pc' = "split"
    /\ UNCHANGED <<result, ls_vars, exec_result, out, exit_status>>

\* main.rs: io::stdin().read_line(&mut input)? fails, main returns the error
ReadLineErr ==
    /\ pc = "read"
    /\ pc' = "returned"
    /\ exit_status' = 1
    /\ UNCHANGED <<line, input, tokenizer_vars, result, ls_vars, exec_result, out>>

\* main.rs: Err(error) => { println!("{}", error); continue; }
MatchErr ==
    /\ pc = "parsed"
    /\ ~result.ok
    /\ out' = Append(out, CommandError_fmt(result.error))
    /\ pc' = "loop"
    /\ UNCHANGED <<line, input, tokenizer_vars, result, ls_vars, exec_result,
                   exit_status>>

\* execute, CommandType::Echo
ExecuteEcho ==
    /\ pc = "parsed"
    /\ result.ok
    /\ result.value.command_type = "Echo"
    /\ out' = Append(out, join(result.value.arguments, NL))
    /\ exec_result' = "ok"
    /\ pc' = "loop"
    /\ UNCHANGED <<line, input, tokenizer_vars, result, ls_vars, exit_status>>

\* execute, CommandType::Exit
ExecuteExit ==
    /\ pc = "parsed"
    /\ result.ok
    /\ result.value.command_type = "Exit"
    /\ pc' = "exited"
    /\ exit_status' = 0
    /\ UNCHANGED <<line, input, tokenizer_vars, result, ls_vars, exec_result, out>>

\* execute, CommandType::Help
ExecuteHelp ==
    /\ pc = "parsed"
    /\ result.ok
    /\ result.value.command_type = "Help"
    /\ out' = Append(out, <<"Help is not implemented yet">>)
    /\ exec_result' = "ok"
    /\ pc' = "loop"
    /\ UNCHANGED <<line, input, tokenizer_vars, result, ls_vars, exit_status>>

\* execute, CommandType::Ls: dirs is set up; the file system is whatever it is
ExecuteLs ==
    /\ pc = "parsed"
    /\ result.ok
    /\ result.value.command_type = "Ls"
    /\ dirs' = IF result.value.arguments = <<>>
               THEN << <<".">> >>
               ELSE result.value.arguments
    /\ fs' \in [{dirs'[k] : k \in 1..Len(dirs')} -> FsStates]
    /\ done_dirs' = 0
    /\ pc' = "ls"
    /\ UNCHANGED <<line, input, tokenizer_vars, result, exec_result, out, exit_status>>

\* execute, CommandType::Ls: one iteration of the for loop; on an error execute
\* returns it and main prints it
LsDir ==
    /\ pc = "ls"
    /\ done_dirs < Len(dirs)
    /\ LET dir == dirs[done_dirs + 1]
           step == ls_dir(dirs, dir, fs[dir])
       IN  /\ out' = out \o step.lines
                     \o (IF step.flow = "err" THEN <<IoErrorLine>> ELSE <<>>)
           /\ done_dirs' = IF step.flow = "continue" THEN done_dirs + 1 ELSE done_dirs
           /\ exec_result' = IF step.flow = "err" THEN "err" ELSE exec_result
           /\ pc' = CASE step.flow = "continue" -> "ls"
                      [] step.flow = "err" -> "loop"
                      [] step.flow = "panic" -> "panicked"
           /\ exit_status' = IF step.flow = "panic" THEN 101 ELSE exit_status
    /\ UNCHANGED <<line, input, tokenizer_vars, result, dirs, fs>>

\* execute, CommandType::Ls: the for loop is over, execute returns Ok(())
LsReturn ==
    /\ pc = "ls"
    /\ done_dirs = Len(dirs)
    /\ exec_result' = "ok"
    /\ pc' = "loop"
    /\ UNCHANGED <<line, input, tokenizer_vars, result, ls_vars, out, exit_status>>

Init ==
    /\ pc = "loop"
    /\ line = <<>>
    /\ input = <<>>
    /\ pos = 0
    /\ output = <<>>
    /\ current = <<>>
    /\ inside_quotes = FALSE
    /\ result = NoResult
    /\ dirs = <<>>
    /\ done_dirs = 0
    /\ fs = <<>>
    /\ exec_result = "none"
    /\ out = <<>>
    /\ exit_status = -1

Next ==
    \/ Prompt
    \/ PromptFlushErr
    \/ ReadLine
    \/ ReadLineErr
    \/ SplitChar
    \/ SplitFinish
    \/ TryFrom
    \/ MatchErr
    \/ ExecuteEcho
    \/ ExecuteExit
    \/ ExecuteHelp
    \/ ExecuteLs
    \/ LsDir
    \/ LsReturn

Spec == Init /\ [][Next]_vars

-----------------------------------------------------------------------------
(* Reference definitions for the tokenizer claims, by position in the input *)

\* position k of s lies outside quotes: an even number of quotes precede it
OutsideQuotes(s, k) == Cardinality({j \in 1..(k - 1) : s[j] = QUOTE}) % 2 = 0

\* positions of the spaces that separate tokens
Separators(s) == {k \in 1..Len(s) : s[k] = SP /\ OutsideQuotes(s, k)}

\* the k-th smallest element of a set of numbers
Nth(S, k) == CHOOSE x \in S : Cardinality({y \in S : y < x}) = k - 1

StripQuotes(s) == SelectSeq(s, LAMBDA c : c # QUOTE)

\* the text between boundary p (0 or a separator) and the next boundary
Segment(s, p) ==
    LET nxt == Min({q \in Separators(s) \cup {Len(s) + 1} : q > p})
    IN  StripQuotes(SubSeq(s, p + 1, nxt - 1))

\* the boundary that starts the last segment
LastBoundary(s) == IF Separators(s) = {} THEN 0 ELSE Nth(Separators(s), Cardinality(Separators(s)))

\* Reference split: the segments between separating spaces, quotes removed,
\* the empty ones dropped except the last segment, which is always kept.
RefSplit(s) ==
    LET starts == {0} \cup Separators(s)
        kept == {p \in starts : Segment(s, p) # <<>> \/ p = LastBoundary(s)}
    IN  [k \in 1..Cardinality(kept) |-> Segment(s, Nth(kept, k))]

\* the input with the quote characters and the unquoted spaces removed
ContentOf(s) ==
    LET keep == {k \in 1..Len(s) : s[k] # QUOTE /\ k \notin Separators(s)}
    IN  [k \in 1..Cardinality(keep) |-> s[Nth(keep, k)]]

\* the input without its trailing run of unquoted spaces
RECURSIVE StripTrailingSpaces(_)
StripTrailingSpaces(s) ==
    IF s # <<>> /\ Len(s) \in Separators(s)
    THEN StripTrailingSpaces(SubSeq(s, 1, Len(s) - 1))
    ELSE s

Tokenized == pc \in {"tokens", "parsed"}
Parsed == pc = "parsed"

KnownNames == {ECHO, EXIT, HELP, LS}
KindOf(name) ==
    CASE name = ECHO -> "Echo" [] name = EXIT -> "Exit"
      [] name = HELP -> "Help" [] name = LS -> "Ls"

FlagTokens(toks) == SelectSeq(Tail(toks), LAMBDA t : t # <<>> /\ Head(t) = DASH)
PositionalTokens(toks) == SelectSeq(Tail(toks), LAMBDA t : t = <<>> \/ Head(t) # DASH)

\* the argument-count rule of each kind, as the rule table of the specification states it
CountRuleHolds(kind, n) ==
    CASE kind = "Echo" -> n >= 1
      [] kind = "Exit" -> n = 0
      [] kind = "Help" -> n = 0
      [] kind = "Ls" -> TRUE

CountRule(kind) ==
    CASE kind = "Echo" -> AtLeast(1)
      [] kind = "Exit" -> Exact(0)
      [] kind = "Help" -> Exact(0)

AllFlagsSupported(kind, toks) ==
    \A k \in 1..Len(FlagTokens(toks)) : FlagTokens(toks)[k] \in get_supported_flags(kind)

-----------------------------------------------------------------------------
(* Claims about Command::try_from, checked under SpecParse *)

\* C1: for a line whose first token is echo, exit, help or ls, try_from succeeds
\* exactly when every remaining token starting with '-' is a supported flag and
\* the number of remaining tokens not starting with '-' satisfies the kind's rule
\* (echo: at least 1; exit, help: exactly 0; ls: any); a constructed Command has
\* only supported flags and a valid argument count; a count mismatch is reported
\* as WrongArgumentsCount with the kind's constraint and the actual count.
C1_ConstructionInvariant ==
    (Parsed /\ output[1] \in KnownNames) =>
        LET kind == KindOf(output[1])
            n == Len(PositionalTokens(output))
        IN  /\ result.ok <=> (AllFlagsSupported(kind, output) /\ CountRuleHolds(kind, n))
            /\ result.ok =>
                  /\ result.value.command_type = kind
                  /\ \A k \in 1..Len(result.value.flags) :
                        result.value.flags[k] \in get_supported_flags(kind)
                  /\ CountRuleHolds(kind, Len(result.value.arguments))
                  /\ result.value.arguments = PositionalTokens(output)
            /\ (AllFlagsSupported(kind, output) /\ ~CountRuleHolds(kind, n)) =>
                  result = Err(WrongArgumentsCount(CountRule(kind), n))

\* C1 witness: echo was given exactly one positional argument and no flag, and
\* the Command was constructed.
C1_Witness ==
    /\ Parsed
    /\ output[1] = ECHO
    /\ Len(output) = 2
    /\ result.ok
    /\ Len(result.value.arguments) = 1

\* C2: validation is ordered and fail-fast: an unknown name gives
\* UnknownCommand(name) whatever follows; otherwise an unsupported flag gives
\* UnsupportedFlag(f) for the first unsupported flag in input order, even when
\* the argument count is wrong too; WrongArgumentsCount is returned only when
\* the name is known and every flag is supported.
C2_OrderedFailFast ==
    Parsed =>
        /\ output[1] \notin KnownNames => result = Err(UnknownCommand(output[1]))
        /\ output[1] \in KnownNames =>
              LET kind == KindOf(output[1])
                  fl == FlagTokens(output)
                  bad == {k \in 1..Len(fl) : fl[k] \notin get_supported_flags(kind)}
              IN  /\ bad # {} => result = Err(UnsupportedFlag(fl[Min(bad)]))
                  /\ (~result.ok /\ result.error.kind = "WrongArgumentsCount") => bad = {}
        /\ (~result.ok /\ result.error.kind = "WrongArgumentsCount") =>
              output[1] \in KnownNames

\* C2 witness: echo with two different flags and no positional argument, so the
\* count rule is violated as well, and the first flag is the one reported.
C2_Witness ==
    /\ Parsed
    /\ output[1] = ECHO
    /\ Len(FlagTokens(output)) = 2
    /\ FlagTokens(output)[1] # FlagTokens(output)[2]
    /\ Len(PositionalTokens(output)) = 0
    /\ result = Err(UnsupportedFlag(FlagTokens(output)[1]))

\* C3 as stated: no run of unquoted spaces, trailing runs included, produces an
\* empty token: every token but the last is non-empty, and the last token is not
\* empty where it would be non-empty without the trailing run of spaces.
C3_NoEmptyTokenFromAnyRun ==
    Tokenized =>
        /\ \A k \in 1..(Len(output) - 1) : output[k] # <<>>
        /\ Last(output) = <<>> =>
              Last(split_input_outside_quotes(StripTrailingSpaces(input))) = <<>>

\* C3 amended: only the final token can be empty; a space outside quotes seen
\* while the buffer is empty emits nothing, so leading runs and runs between
\* tokens produce no empty token; the final token is empty exactly when nothing
\* but quote characters follows the last unquoted space (or the input has no
\* content at all), which includes every input that ends in an unquoted space.
C3_OnlyFinalTokenEmpty ==
    /\ \A k \in 1..Len(output) : output[k] = <<>> => (Tokenized /\ k = Len(output))
    /\ Tokenized =>
          /\ Last(output) = <<>> <=>
                \A k \in (LastBoundary(input) + 1)..Len(input) : input[k] = QUOTE
          /\ (input # <<>> /\ Len(input) \in Separators(input)) => Last(output) = <<>>

\* C3 witness: leading spaces, two spaces between two tokens and a trailing
\* space; the only empty token is the final one.
C3_Witness ==
    /\ Tokenized
    /\ Len(input) >= 6
    /\ input[1] = SP
    /\ input[Len(input)] = SP
    /\ \E k \in 2..(Len(input) - 2) : input[k] = SP /\ input[k + 1] = SP
    /\ QUOTE \notin {input[k] : k \in 1..Len(input)}
    /\ Len(output) = 3
    /\ output[3] = <<>>

\* C4: the tokenizer's output equals the reference split; no token contains a
\* quote character; with an unterminated quote everything after the last quote,
\* spaces included, ends the final token; the concatenation of the tokens is the
\* input with the quote characters and the unquoted spaces removed.
C4_ReferenceSplit ==
    Tokenized =>
        /\ output = RefSplit(input)
        /\ \A k \in 1..Len(output) : \A j \in 1..Len(output[k]) : output[k][j] # QUOTE
        /\ Concat(output) = ContentOf(input)
        /\ LET quotes == {k \in 1..Len(input) : input[k] = QUOTE}
               lastq == Nth(quotes, Cardinality(quotes))
               after == SubSeq(input, lastq + 1, Len(input))
           IN  Cardinality(quotes) % 2 = 1 =>
                  /\ inside_quotes
                  /\ Len(Last(output)) >= Len(after)
                  /\ SubSeq(Last(output), Len(Last(output)) - Len(after) + 1,
                            Len(Last(output))) = after

\* C4 witness: an unterminated quote followed by text that holds a space, all of
\* it accumulated into the final token.
C4_Witness ==
    /\ Tokenized
    /\ inside_quotes
    /\ Len(output) >= 2
    /\ \E k \in 1..Len(Last(output)) : Last(output)[k] = SP
    /\ Len(Last(output)) >= 3

\* C8: the tokenizer returns at least one token for every input, so the access
\* to the first token never panics; the empty line gives exactly one empty token
\* and parses to UnknownCommand("").
C8_FirstTokenPresent ==
    /\ pc # "panicked"
    /\ Tokenized => Len(output) >= 1
    /\ (Parsed /\ input = <<>>) =>
          /\ output = << <<>> >>
          /\ result = Err(UnknownCommand(<<>>))

\* C8 witness: a non-empty input made only of spaces and quote characters was
\* parsed, to UnknownCommand("").
C8_Witness ==
    /\ Parsed
    /\ Len(input) >= 3
    /\ \A k \in 1..Len(input) : input[k] \in {SP, QUOTE}
    /\ \E k \in 1..Len(input) : input[k] = SP
    /\ \E k \in 1..Len(input) : input[k] = QUOTE
    /\ result = Err(UnknownCommand(<<>>))

\* C10: every supported-flag set is empty, so a constructed Command has no flags
\* and no argument that starts with '-'; a known name followed by at least one
\* token whose first character (quotes stripped) is '-' fails with
\* UnsupportedFlag.
C10_DashTokenNeverAccepted ==
    Parsed =>
        /\ result.ok =>
              /\ result.value.flags = <<>>
              /\ \A k \in 1..Len(result.value.arguments) :
                    ~(result.value.arguments[k] # <<>>
                      /\ Head(result.value.arguments[k]) = DASH)
        /\ (output[1] \in KnownNames
            /\ \E k \in 2..Len(output) : output[k] # <<>> /\ Head(output[k]) = DASH) =>
              (~result.ok /\ result.error.kind = "UnsupportedFlag")

\* C10 witness: a quoted "-a" after a known name was rejected as a flag.
C10_Witness ==
    /\ Parsed
    /\ output[1] = LS
    /\ Len(output) = 2
    /\ output[2] = <<DASH, "a">>
    /\ \E k \in 1..Len(input) : input[k] = QUOTE
    /\ result = Err(UnsupportedFlag(<<DASH, "a">>))

-----------------------------------------------------------------------------
(* Claims about the loop of main and about execute, checked under Spec *)

\* an ls command was constructed and its execution has begun
InLs == result.ok /\ result.value.command_type = "Ls" /\ dirs # <<>>

KindAt(k) == fs[dirs[k]].kind

\* the arguments of ls at which enumeration fails
FailingArgs == {k \in 1..Len(dirs) : KindAt(k) \in {"Denied", "BadEntry"}}

\* what is printed for the k-th argument of ls, framed or not
Listing(k, framed) ==
    LET dir == dirs[k]
        names == SelectSeq(EntryNames,
                           LAMBDA n : \E j \in 1..Len(fs[dir].entries) :
                                         fs[dir].entries[j] = n)
    IN  CASE KindAt(k) = "Missing" -> <<MissingLine(dir)>>
          [] KindAt(k) = "File" -> <<NotDirLine(dir)>>
          [] KindAt(k) = "Dir" ->
                (IF framed THEN <<HeaderLine(dir)>> ELSE <<>>)
                \o [j \in 1..Len(names) |-> dir \o <<"/", names[j]>>]
                \o (IF framed THEN <<BlankLine>> ELSE <<>>)
          [] OTHER -> <<>>

RECURSIVE Listings(_, _)
Listings(n, framed) ==
    IF n = 0 THEN <<>> ELSE Listings(n - 1, framed) \o Listing(n, framed)

IsDiagnostic(l) ==
    \E k \in 1..Len(dirs) : l = MissingLine(dirs[k]) \/ l = NotDirLine(dirs[k])

Count(seq, Test(_)) == Cardinality({k \in 1..Len(seq) : Test(seq[k])})

\* what one finished iteration of the loop has printed after the prompt
IterationOutput ==
    IF ~result.ok THEN <<CommandError_fmt(result.error)>>
    ELSE CASE result.value.command_type = "Echo" ->
                <<join(result.value.arguments, NL)>>
           [] result.value.command_type = "Help" ->
                << <<"Help is not implemented yet">> >>
           [] result.value.command_type = "Ls" ->
                Listings(done_dirs, Len(result.value.arguments) > 1)
                \o (IF exec_result = "err" THEN <<IoErrorLine>> ELSE <<>>)
           [] OTHER -> <<>>

\* a line was read in the current iteration of the loop
LineRead ==
    \/ pc \in {"split", "tokens", "parsed", "ls", "exited", "panicked"}
    \/ pc = "loop" /\ out # <<>>

\* C5: once a line has been read, the process terminates only by executing a
\* validated exit command (no arguments, no flags), with status 0; after every
\* other line, whether it ends in a parse error, an execution error or a
\* successful echo, help or ls, exactly the corresponding output is printed and
\* the loop is back at the prompt.
C5_TerminatesOnlyByExit ==
    LineRead =>
        /\ exit_status # -1 =>
              /\ pc = "exited"
              /\ exit_status = 0
              /\ result = Ok([command_type |-> "Exit", arguments |-> <<>>,
                              flags |-> <<>>])
        /\ pc # "panicked"
        /\ pc = "loop" => out = <<PromptText>> \o IterationOutput

\* C6 as stated: in an execution of ls that came back to the loop, an argument
\* that does not exist or is not a directory and got its diagnostic is followed
\* by the listing of every later argument that is a readable directory, and
\* execute returned Ok.
C6_LaterArgumentsAlwaysListed ==
    (pc = "loop" /\ InLs) =>
        \A i \in 1..Len(dirs) :
            (KindAt(i) \in {"Missing", "File"} /\ i <= done_dirs) =>
                /\ exec_result = "ok"
                /\ \A j \in (i + 1)..Len(dirs) : KindAt(j) = "Dir" => j <= done_dirs

\* C6 amended: ls processes its arguments in input order up to the first
\* argument whose enumeration fails; each processed argument that does not
\* exist or is not a directory gives exactly one diagnostic line and does not
\* stop the loop; each processed readable directory has its entries printed;
\* an argument after a missing one is left unprocessed only when enumeration
\* failed at an argument before it; execute returns Ok exactly when no
\* enumeration failed.
C6_DiagnosticDoesNotStopLs ==
    InLs =>
        LET stop == IF FailingArgs = {} THEN Len(dirs) ELSE Min(FailingArgs) - 1
        IN  /\ done_dirs <= stop
            /\ Count(out, IsDiagnostic)
                 = Cardinality({k \in 1..done_dirs : KindAt(k) \in {"Missing", "File"}})
            /\ \A k \in 1..done_dirs :
                  /\ KindAt(k) = "Missing" => \E n \in 1..Len(out) : out[n] = MissingLine(dirs[k])
                  /\ KindAt(k) = "File" => \E n \in 1..Len(out) : out[n] = NotDirLine(dirs[k])
                  /\ KindAt(k) = "Dir" =>
                        \A j \in 1..Len(fs[dirs[k]].entries) :
                            \E n \in 1..Len(out) :
                                out[n] = dirs[k] \o <<"/", fs[dirs[k]].entries[j]>>
            /\ pc = "loop" =>
                  /\ done_dirs = stop
                  /\ exec_result = "ok" <=> FailingArgs = {}
                  /\ exec_result = "err" <=> (FailingArgs # {} /\ KindAt(stop + 1) = "Denied")
            /\ pc = "panicked" => (done_dirs = stop /\ KindAt(stop + 1) = "BadEntry")
            /\ pc \in {"ls", "loop", "panicked"}

\* C6 witness: ls of a missing path, then a file, then a directory with two
\* entries came back to the loop with Ok, everything processed.
C6_Witness ==
    /\ pc = "loop"
    /\ InLs
    /\ Len(dirs) = 3
    /\ KindAt(1) = "Missing"
    /\ KindAt(2) = "File"
    /\ KindAt(3) = "Dir"
    /\ Len(fs[dirs[3]].entries) = 2
    /\ done_dirs = 3
    /\ exec_result = "ok"
    /\ Count(out, IsDiagnostic) = 2

\* C7: ls prints a '<path>:' line before and a blank line after the entries of
\* each listed directory exactly when more than one argument was given; with one
\* argument, or none (the single entry '.'), neither is printed.
C7_FramingIffSeveralArguments ==
    InLs =>
        LET listed == SelectSeq(out, LAMBDA l : l # PromptText /\ l # IoErrorLine)
        IN  /\ listed = Listings(done_dirs, Len(result.value.arguments) > 1)
            /\ Len(result.value.arguments) <= 1 =>
                  \A n \in 1..Len(out) :
                      /\ out[n] # BlankLine
                      /\ \A k \in 1..Len(dirs) : out[n] # HeaderLine(dirs[k])
            /\ Len(result.value.arguments) > 1 =>
                  /\ Count(out, LAMBDA l : l = BlankLine)
                       = Cardinality({k \in 1..done_dirs : KindAt(k) = "Dir"})
                  /\ Count(out, LAMBDA l : \E k \in 1..Len(dirs) : l = HeaderLine(dirs[k]))
                       = Cardinality({k \in 1..done_dirs : KindAt(k) = "Dir"})

\* C7 witness: two directories with entries were listed, each with its header
\* and its blank line.
C7_Witness ==
    /\ pc = "loop"
    /\ InLs
    /\ Len(result.value.arguments) = 2
    /\ dirs[1] # dirs[2]
    /\ KindAt(1) = "Dir"
    /\ KindAt(2) = "Dir"
    /\ Len(fs[dirs[1]].entries) = 2
    /\ Len(fs[dirs[2]].entries) = 1
    /\ done_dirs = 2
    /\ Len(out) = 8

====
